---- MODULE Spec2Model ----
(***************************************************************************)
(* Pipeline lifecycle engine of the Corpus orchestrator                    *)
(* (src/orchestrator/pipeline_orchestrator.py, class PipelineOrchestrator).*)
(*                                                                         *)
(* The registry self.pipelines maps a pipeline id to a Pipeline object.    *)
(* Pipeline objects live on the heap: a stopped object that was replaced   *)
(* in the registry is still referenced by its worker thread, so the model  *)
(* keeps every object ever created (heap) and the registry as a map from   *)
(* ids to heap positions (0 = id not in the registry).                     *)
(*                                                                         *)
(* The public operations run on the thread of their caller, concurrently   *)
(* with the worker threads, so each operation is a sequence of steps; each *)
(* step is one read or write of shared state.                              *)
(*                                                                         *)
(* The specifications share the variables:                                 *)
(*   Spec      start, stop and the worker threads of the pipelines;        *)
(*   FairSpec  Spec with fairly scheduled worker threads;                  *)
(*   RaceSpec  Spec with two calling threads;                              *)
(*   CleanupSpec, CleanupFairSpec                                          *)
(*             start, stop and cleanup over two pipeline ids;              *)
(*   CommandSpec                                                           *)
(*             process_command driving the engine;                         *)
(*   CapSpec   the capability registry: check_all_capabilities running     *)
(*             concurrently with speak, get_vision_description,            *)
(*             pipe_vision_to_speech and get_system_status, for every      *)
(*             set of registered capabilities;                             *)
(*   BasicSpec the capability registry of CorpusOrchestrator               *)
(*             (src/orchestrator/orchestrator.py) with its speak.          *)
(***************************************************************************)
EXTENDS Integers, Sequences, FiniteSets, TLC

\* ----------------------------------------------------------------- bounds
\* Number of Pipeline objects ever created (successful start calls).
MaxPipelines == 2
\* Number of pipeline executions counted by all workers together.
MaxExecutions == 3

\* ------------------------------------------------------------ input sets
PipelineIds == {"p1"}
Callers == {"c1"}

\* interval_ms values a caller may pass.
Intervals == {-1}

\* config argument of start_continuous_pipeline: None (JSON null), a
\* mapping without interval_ms, or a mapping with interval_ms.
Configs ==
    {[is_none |-> TRUE, has_interval |-> FALSE, interval_ms |-> 0],
     [is_none |-> FALSE, has_interval |-> FALSE, interval_ms |-> 0]}
    \cup {[is_none |-> FALSE, has_interval |-> TRUE, interval_ms |-> i] : i \in Intervals}

\* Outcomes of the two network calls made by one pipeline execution.
\* "raise" is a transport error (requests raises), "non200" any other
\* status code, "ok200" status 200.
Responses == {"raise", "non200", "ok200"}
\* Strings are sequences of characters.  Descriptions a vision service may
\* send: the empty string and texts with upper and lower case letters.
Descriptions == {<<>>, <<"a">>, <<"A", "b">>}
\* JSON body of a 200 answer of /analyze: with or without 'description'.
Bodies ==
    {[has_description |-> FALSE, description |-> <<>>]}
    \cup {[has_description |-> TRUE, description |-> d] : d \in Descriptions}
\* Texts passed to speak by a direct call.
Texts == {<<>>, <<"H", "i">>}

\* The capabilities the engine sends requests to, in configuration order
\* (audio and brain of the default configuration are only ever probed, the
\* same way as these two).
CapabilityNames == <<"speech", "vision">>
\* The capabilities section of a configuration: any subset of the names.
Registrations == SUBSET {"speech", "vision"}

\* config argument of pipe_vision_to_speech: None, an empty mapping, or a
\* mapping with 'emotion' (a known tag or an unknown one).
ExecConfigs ==
    {[is_none |-> TRUE], [is_none |-> FALSE]}
    \cup {[is_none |-> FALSE, emotion |-> e] : e \in {"curious", "sad"}}

\* config argument of vision_to_speech_transform: None, an empty mapping, or
\* a mapping with 'emotion': each known tag, an unknown tag, the empty tag.
TransformConfigs ==
    {[is_none |-> TRUE], [is_none |-> FALSE]}
    \cup {[is_none |-> FALSE, emotion |-> e] :
             e \in {"calm", "excited", "curious", "observant", "sad", ""}}

\* str(e) of the exceptions a liveness request may raise.
ErrorTexts == {"timed out", "refused"}
\* last_error = None.
NoError == "None"
\* Outcomes of the GET /status of a liveness probe.
ProbeResponses ==
    {[kind |-> "ok200", error |-> NoError], [kind |-> "non200", error |-> NoError]}
    \cup {[kind |-> "raise", error |-> e] : e \in ErrorTexts}
\* No answer yet in the current round of check_all_capabilities.
Unprobed == [kind |-> "unprobed", error |-> NoError]

\* ------------------------------------------------------------ enum values
STOPPED == "stopped"
RUNNING == "running"
ERROR == "error"
PipelineStatus == {STOPPED, RUNNING, ERROR}
OFFLINE == "offline"
ONLINE == "online"
CAPABILITY_ERROR == "error"
CapabilityStatus == {OFFLINE, ONLINE, CAPABILITY_ERROR}

\* Default of config.get('interval_ms', 5000).
DefaultIntervalMs == 5000

VARIABLES
    pipelines,    \* self.pipelines: id -> heap position of its Pipeline, 0 if absent
    heap,         \* every Pipeline object created so far
    calls,        \* per caller: the operation in progress and its locals
    capabilities, \* self.capabilities: registered name -> status and last_error
    probe,        \* the check_all_capabilities call in progress or last returned
    last          \* the last direct capability call: arguments, requests, result

vars == <<pipelines, heap, calls, capabilities, probe, last>>

\* ------------------------------------------------------- thread positions
\* "new"   Thread object constructed, start() not yet called
\* "init"  started, about to evaluate line 211
\* "test"  about to evaluate the loop condition (line 213)
\* "body"  loop condition passed, about to count the execution (line 216)
\* "exec"  inside pipe_vision_to_speech (line 217), network calls in flight
\* "sleep" inside time.sleep(interval) (line 226)
\* "dead"  the worker function has returned or raised
ThreadStates == {"new", "init", "test", "body", "exec", "sleep", "dead"}

is_alive(t) == t \notin {"new", "dead"}

\* ---------------------------------------------------------- pure helpers

\* interval = pipeline.config.get('interval_ms', 5000) / 1000.0; the sign of
\* the quotient is the sign of the dividend, so the model keeps milliseconds.
interval_ms_of(config) ==
    IF config.has_interval THEN config.interval_ms ELSE DefaultIntervalMs

\* Line 211 runs outside the try block: config None has no .get, the
\* worker raises AttributeError and dies before entering its loop.
init_raises(config) == config.is_none

\* time.sleep accepting every argument.
sleep_never_raises(config) == FALSE

\* time.sleep raises ValueError for a negative argument.
sleep_raises(config) == interval_ms_of(config) < 0

\* _initialize_capabilities: every registered capability starts OFFLINE.
initialize_capabilities(registered) ==
    [name \in registered |-> [status |-> OFFLINE, last_error |-> NoError]]

\* check_capability_status without its except clause.
check_capability_status_uncaught(caps, name, resp) ==
    IF name \notin DOMAIN caps
    THEN [capabilities |-> caps, result |-> FALSE, raised |-> FALSE]
    ELSE IF resp.kind = "ok200"
    THEN [capabilities |->
              [caps EXCEPT ![name] = [status |-> ONLINE, last_error |-> NoError]],
          result |-> TRUE, raised |-> FALSE]
    ELSE [capabilities |-> caps, result |-> FALSE, raised |-> resp.kind = "raise"]

\* check_capability_status without line 78 (last_error = None).
check_capability_status_keeps_error(caps, name, resp) ==
    IF name \notin DOMAIN caps
    THEN [capabilities |-> caps, result |-> FALSE, raised |-> FALSE]
    ELSE IF resp.kind = "ok200"
    THEN [capabilities |-> [caps EXCEPT ![name].status = ONLINE],
          result |-> TRUE, raised |-> FALSE]
    ELSE IF resp.kind = "raise"
    THEN [capabilities |->
              [caps EXCEPT ![name] =
                  [status |-> CAPABILITY_ERROR, last_error |-> resp.error]],
          result |-> FALSE, raised |-> FALSE]
    ELSE [capabilities |-> caps, result |-> FALSE, raised |-> FALSE]

\* check_capability_status(name) with the answer resp: the registry after the
\* call, the value returned, and whether an exception left the function.
\* Status 200 writes ONLINE, an exception writes ERROR and its text, any
\* other status code writes nothing.
check_capability_status(caps, name, resp) ==
    IF name \notin DOMAIN caps
    THEN [capabilities |-> caps, result |-> FALSE, raised |-> FALSE]
    ELSE IF resp.kind = "ok200"
    THEN [capabilities |->
              [caps EXCEPT ![name] = [status |-> ONLINE, last_error |-> NoError]],
          result |-> TRUE, raised |-> FALSE]
    ELSE IF resp.kind = "raise"
    THEN [capabilities |->
              [caps EXCEPT ![name] =
                  [status |-> CAPABILITY_ERROR, last_error |-> resp.error]],
          result |-> FALSE, raised |-> FALSE]
    ELSE [capabilities |-> caps, result |-> FALSE, raised |-> FALSE]

\* self.capabilities.keys(): the registered names in configuration order.
capability_keys(caps) ==
    SelectSeq(CapabilityNames, LAMBDA name : name \in DOMAIN caps)

\* str.lower() on the characters of the model.
lower_char(ch) ==
    IF ch = "A" THEN "a" ELSE IF ch = "H" THEN "h" ELSE ch

lower(str) == [i \in 1..Len(str) |-> lower_char(str[i])]

\* dict.get(key, default).
config_get(config, key, default) ==
    IF key \in DOMAIN config THEN config[key] ELSE default

\* emotion_prefixes of _add_emotional_context and the default prefix.
emotion_prefixes ==
    [calm |-> "In this peaceful moment, ",
     excited |-> "I'm excited to see that ",
     curious |-> "I'm curious about what I'm seeing - ",
     observant |-> "I notice that "]

DefaultPrefix == "I can see that "

\* _add_emotional_context without .lower().
add_emotional_context_keeps_case(description, config) ==
    LET emotion == config_get(config, "emotion", "observant")
        prefix == IF emotion \in DOMAIN emotion_prefixes
                  THEN emotion_prefixes[emotion] ELSE DefaultPrefix
    IN  <<prefix>> \o description

\* _add_emotional_context: prefix + description.lower().  The prefix is kept
\* as the first element of the text, the characters follow.
add_emotional_context(description, config) ==
    LET emotion == config_get(config, "emotion", "observant")
        prefix == IF emotion \in DOMAIN emotion_prefixes
                  THEN emotion_prefixes[emotion] ELSE DefaultPrefix
    IN  <<prefix>> \o lower(description)

\* vision_to_speech_transform: `if not config: config = {}`.
vision_to_speech_transform(description, config) ==
    LET cfg == IF config.is_none THEN [is_none |-> FALSE] ELSE config
    IN  [text |-> add_emotional_context(description, cfg),
         voice_config |->
             [voice_id |-> config_get(cfg, "voice_id", "ito"),
              emotion |-> config_get(cfg, "emotion", "conversational"),
              context |-> "visual_observation"]]

\* get_vision_description without the test of line 115.
get_vision_description_unchecked(caps, resp, body) ==
    IF resp = "ok200" /\ body.has_description
    THEN [capabilities |-> caps,
          requests |-> <<[endpoint |-> "/analyze", text |-> <<>>]>>,
          none |-> FALSE, text |-> body.description, raised |-> FALSE]
    ELSE [capabilities |-> caps,
          requests |-> <<[endpoint |-> "/analyze", text |-> <<>>]>>,
          none |-> TRUE, text |-> <<>>, raised |-> FALSE]

\* get_vision_description with the answer resp and its JSON body: the
\* registry after the call, the requests sent, and the description returned
\* (none = None).  Nothing is sent when 'vision' is not registered; every
\* exception is caught.
get_vision_description(caps, resp, body) ==
    IF "vision" \notin DOMAIN caps
    THEN [capabilities |-> caps, requests |-> <<>>,
          none |-> TRUE, text |-> <<>>, raised |-> FALSE]
    ELSE IF resp = "ok200" /\ body.has_description
    THEN [capabilities |-> caps,
          requests |-> <<[endpoint |-> "/analyze", text |-> <<>>]>>,
          none |-> FALSE, text |-> body.description, raised |-> FALSE]
    ELSE [capabilities |-> caps,
          requests |-> <<[endpoint |-> "/analyze", text |-> <<>>]>>,
          none |-> TRUE, text |-> <<>>, raised |-> FALSE]

\* speak that records the outcome of its request in the registry.
speak_records_status(caps, text, resp) ==
    IF "speech" \notin DOMAIN caps
    THEN [capabilities |-> caps, requests |-> <<>>,
          result |-> FALSE, raised |-> FALSE]
    ELSE [capabilities |->
              [caps EXCEPT !["speech"].status =
                  IF resp = "ok200" THEN ONLINE ELSE CAPABILITY_ERROR],
          requests |-> <<[endpoint |-> "/speak", text |-> text]>>,
          result |-> (resp = "ok200"), raised |-> FALSE]

\* speak as CorpusOrchestrator has it (orchestrator.py line 83): refused
\* unless the recorded status is ONLINE.
speak_gated_by_status(caps, text, resp) ==
    IF "speech" \notin DOMAIN caps
    THEN [capabilities |-> caps, requests |-> <<>>,
          result |-> FALSE, raised |-> FALSE]
    ELSE IF caps["speech"].status # ONLINE
    THEN [capabilities |-> caps, requests |-> <<>>,
          result |-> FALSE, raised |-> FALSE]
    ELSE [capabilities |-> caps,
          requests |-> <<[endpoint |-> "/speak", text |-> text]>>,
          result |-> (resp = "ok200"), raised |-> FALSE]

\* speak(text) with the answer resp: True iff the answer is 200.  Nothing is
\* sent when 'speech' is not registered; the status of the capability is
\* neither read nor written; every exception is caught.
speak(caps, text, resp) ==
    IF "speech" \notin DOMAIN caps
    THEN [capabilities |-> caps, requests |-> <<>>,
          result |-> FALSE, raised |-> FALSE]
    ELSE [capabilities |-> caps,
          requests |-> <<[endpoint |-> "/speak", text |-> text]>>,
          result |-> (resp = "ok200"), raised |-> FALSE]

\* CorpusOrchestrator.speak without the status test of orchestrator.py line 83.
corpus_speak_ungated(caps, text, resp) ==
    IF "speech" \notin DOMAIN caps
    THEN [capabilities |-> caps, requests |-> <<>>, result |-> FALSE]
    ELSE [capabilities |-> caps,
          requests |-> <<[endpoint |-> "/speak", text |-> text]>>,
          result |-> (resp = "ok200")]

\* CorpusOrchestrator.speak(text) (orchestrator.py, lines 77-96) with the
\* answer resp: False without a request when 'speech' is not registered or
\* its cached status is not ONLINE; otherwise one POST /speak, True iff the
\* answer is 200, every exception caught.
corpus_speak(caps, text, resp) ==
    IF "speech" \notin DOMAIN caps
    THEN [capabilities |-> caps, requests |-> <<>>, result |-> FALSE]
    ELSE IF caps["speech"].status # ONLINE
    THEN [capabilities |-> caps, requests |-> <<>>, result |-> FALSE]
    ELSE [capabilities |-> caps,
          requests |-> <<[endpoint |-> "/speak", text |-> text]>>,
          result |-> (resp = "ok200")]

\* pipe_vision_to_speech with `if description is None: return False`.
pipe_vision_to_speech_none_only(caps, config, vresp, body, sresp) ==
    LET seen == get_vision_description(caps, vresp, body)
        speech_data == vision_to_speech_transform(seen.text, config)
        said == speak(seen.capabilities, speech_data.text, sresp)
    IN  IF seen.raised \/ seen.none
        THEN [capabilities |-> seen.capabilities, requests |-> seen.requests,
              result |-> FALSE, raised |-> FALSE]
        ELSE [capabilities |-> said.capabilities,
              requests |-> seen.requests \o said.requests,
              result |-> said.result /\ ~said.raised, raised |-> FALSE]

\* pipe_vision_to_speech(config): `if not description: return False` rejects
\* None and the empty string; otherwise speak(speech_data['text']).  The
\* except clause of lines 177-179 turns every exception into False.
pipe_vision_to_speech(caps, config, vresp, body, sresp) ==
    LET seen == get_vision_description(caps, vresp, body)
        speech_data == vision_to_speech_transform(seen.text, config)
        said == speak(seen.capabilities, speech_data.text, sresp)
    IN  IF seen.raised
        THEN [capabilities |-> seen.capabilities, requests |-> seen.requests,
              result |-> FALSE, raised |-> FALSE]
        ELSE IF seen.none \/ seen.text = <<>>
        THEN [capabilities |-> seen.capabilities, requests |-> seen.requests,
              result |-> FALSE, raised |-> FALSE]
        ELSE [capabilities |-> said.capabilities,
              requests |-> seen.requests \o said.requests,
              result |-> said.result /\ ~said.raised, raised |-> FALSE]

\* Pipeline(...) as built by start_continuous_pipeline, after line 202.
\* after_stop is a history field: executions counted after stop_flag was set.
NewPipelineLeftStopped(pipeline_id, config) ==
    [id |-> pipeline_id, status |-> STOPPED, config |-> config,
     stop_flag |-> FALSE, executions |-> 0, successes |-> 0,
     thread |-> "new", after_stop |-> 0]

NewPipeline(pipeline_id, config) ==
    [id |-> pipeline_id, status |-> RUNNING, config |-> config,
     stop_flag |-> FALSE, executions |-> 0, successes |-> 0,
     thread |-> "new", after_stop |-> 0]

\* Guard of start_continuous_pipeline (line 183).
AlreadyRunningNever(pipeline_id) == FALSE

AlreadyRunning(pipeline_id) ==
    pipelines[pipeline_id] # 0 /\ heap[pipelines[pipeline_id]].status = RUNNING

\* Guard of stop_pipeline (line 237).
InRegistryAndRunning(pipeline_id) ==
    pipelines[pipeline_id] # 0 /\ heap[pipelines[pipeline_id]].status = RUNNING

InRegistry(pipeline_id) == pipelines[pipeline_id] # 0

\* pipeline.stop_flag = True (line 242).
SignalStopToggle(p) == [p EXCEPT !.stop_flag = ~@]

SignalStop(p) == [p EXCEPT !.stop_flag = TRUE]

\* Loop condition of the worker (line 213).
LoopContinuesAlways(p) == TRUE

LoopContinues(p) == ~p.stop_flag

\* pipeline.stats['executions'] += 1 (line 216).
CountExecutionForgotten(p) == [p EXCEPT !.thread = "exec"]

CountExecution(p) ==
    [p EXCEPT !.executions = @ + 1,
              !.after_stop = IF p.stop_flag THEN @ + 1 ELSE @,
              !.thread = "exec"]

\* Lines 219-226: count the success, then enter the sleep.
CountSuccessFailureFatal(p, success) ==
    IF success
    THEN [p EXCEPT !.successes = @ + 1, !.thread = "sleep"]
    ELSE [p EXCEPT !.status = ERROR, !.thread = "dead"]

CountSuccess(p, success) ==
    [p EXCEPT !.successes = IF success THEN @ + 1 ELSE @,
              !.thread = "sleep"]

\* A worker that looked its pipeline up in the registry by id at each write.
worker_store_by_id(h, r, p) == [h EXCEPT ![pipelines[h[r].id]] = p]

\* The worker thread is given the Pipeline object itself (args=(pipeline,),
\* lines 196-200) and writes its counts and status through that reference:
\* the worker of heap position r stores into position r.
worker_store(h, r, p) == [h EXCEPT ![r] = p]

\* Executions counted so far by the Pipeline objects h[1..n].
RECURSIVE TotalExecutions(_, _)
TotalExecutions(h, n) ==
    IF n = 0 THEN 0 ELSE h[n].executions + TotalExecutions(h, n - 1)

\* Workers among h[1..n] that passed the loop test and have not yet counted
\* their execution.
RECURSIVE InBody(_, _)
InBody(h, n) ==
    IF n = 0 THEN 0
    ELSE (IF h[n].thread = "body" THEN 1 ELSE 0) + InBody(h, n - 1)

\* get_pipeline_status(pipeline_id)['status'], "unknown" for the error answer.
get_pipeline_status(pipeline_id) ==
    IF pipelines[pipeline_id] = 0 THEN "unknown"
    ELSE heap[pipelines[pipeline_id]].status

\* ------------------------------------------------------------------ state

Idle == [pc |-> "idle", op |-> "none", pipeline_id |-> "p1", pipeline |-> 0,
         ret |-> "none", seen |-> "none"]

\* No check_all_capabilities call made yet: todo are the probes not yet
\* begun, inflight the capabilities whose request is sent and not answered,
\* outcome the answers of the round, peak the largest number of requests
\* that were in flight together in the round.
NoProbe(caps) ==
    [pc |-> "idle", todo |-> <<>>, inflight |-> {},
     outcome |-> [name \in DOMAIN caps |-> Unprobed],
     peak |-> 0, raised |-> FALSE]

NoCall == [op |-> "none"]

\* The orchestrator after __init__, with speech and vision registered.
Init ==
    /\ pipelines = [id \in PipelineIds |-> 0]
    /\ heap = <<>>
    /\ calls = [c \in Callers |-> Idle]
    /\ capabilities = initialize_capabilities({"speech", "vision"})
    /\ probe = NoProbe(capabilities)
    /\ last = NoCall

\* One step of a pipeline operation: the new pipeline registry, heap and
\* call records; these steps touch nothing else.
Step(pl, h, cl) ==
    /\ pipelines' = pl
    /\ heap' = h
    /\ calls' = cl
    /\ UNCHANGED <<capabilities, probe, last>>

\* A call returns: the record keeps what the call worked on and its result
\* until the caller issues its next call.
Return(c, result) ==
    [calls EXCEPT ![c].pc = "idle", ![c].ret = result]

\* ----------------------------------------- start_continuous_pipeline steps

\* Lines 183-185: the pipeline is running, return False.
StartRejected(c, pipeline_id, config) ==
    /\ calls[c].pc = "idle"
    /\ AlreadyRunning(pipeline_id)
    /\ Step(pipelines, heap,
            [calls EXCEPT ![c] =
                [pc |-> "idle", op |-> "start", pipeline_id |-> pipeline_id,
                 pipeline |-> 0, ret |-> "False", seen |-> "none"]])

\* Lines 183-202: the check passes, the Pipeline and its Thread are built.
StartCreate(c, pipeline_id, config) ==
    /\ calls[c].pc = "idle"
    /\ ~AlreadyRunning(pipeline_id)
    /\ Len(heap) < MaxPipelines
    /\ Step(pipelines, Append(heap, NewPipeline(pipeline_id, config)),
            [calls EXCEPT ![c] =
                [pc |-> "register", op |-> "start", pipeline_id |-> pipeline_id,
                 pipeline |-> Len(heap) + 1, ret |-> "none", seen |-> "none"]])

\* Line 203: self.pipelines[pipeline_id] = pipeline.
StartRegister(c) ==
    /\ calls[c].pc = "register"
    /\ Step([pipelines EXCEPT ![calls[c].pipeline_id] = calls[c].pipeline],
            heap,
            [calls EXCEPT ![c].pc = "launch"])

\* Lines 204-207: pipeline.thread.start(); return True.
StartLaunch(c) ==
    /\ calls[c].pc = "launch"
    /\ Step(pipelines,
            [heap EXCEPT ![calls[c].pipeline].thread = "init"],
            Return(c, "True"))

\* ------------------------------------------------------ stop_pipeline steps

\* Lines 237-239: unknown id, return False.
StopUnknown(c, pipeline_id) ==
    /\ calls[c].pc = "idle"
    /\ ~InRegistry(pipeline_id)
    /\ Step(pipelines, heap,
            [calls EXCEPT ![c] =
                [pc |-> "idle", op |-> "stop", pipeline_id |-> pipeline_id,
                 pipeline |-> 0, ret |-> "False", seen |-> "none"]])

\* Lines 237-241: pipeline = self.pipelines[pipeline_id].
\* seen remembers the status the object had when the call fetched it.
StopFetch(c, pipeline_id) ==
    /\ calls[c].pc = "idle"
    /\ InRegistry(pipeline_id)
    /\ Step(pipelines, heap,
            [calls EXCEPT ![c] =
                [pc |-> "signal", op |-> "stop", pipeline_id |-> pipeline_id,
                 pipeline |-> pipelines[pipeline_id], ret |-> "none",
                 seen |-> heap[pipelines[pipeline_id]].status]])

\* Line 242: pipeline.stop_flag = True.
StopSignal(c) ==
    /\ calls[c].pc = "signal"
    /\ Step(pipelines,
            [heap EXCEPT ![calls[c].pipeline] = SignalStop(@)],
            [calls EXCEPT ![c].pc = "set_status"])

\* Line 243: pipeline.status = PipelineStatus.STOPPED.
StopSetStatus(c) ==
    /\ calls[c].pc = "set_status"
    /\ Step(pipelines,
            [heap EXCEPT ![calls[c].pipeline].status = STOPPED],
            [calls EXCEPT ![c].pc = "join"])

\* Lines 246-250: the thread is not alive (never started, or it ended, possibly
\* while join was waiting); return True.
StopJoined(c) ==
    /\ calls[c].pc = "join"
    /\ ~is_alive(heap[calls[c].pipeline].thread)
    /\ Step(pipelines, heap, Return(c, "True"))

\* The worker is inside a call that lasts longer than the 2s of join: the
\* network calls of an execution (timeout 30s each) or the sleep.
blocks_past_join(p) ==
    \/ p.thread = "exec"
    \/ p.thread = "sleep" /\ ~sleep_raises(p.config)

\* Lines 246-250: join(timeout=2) times out with the thread alive; return True.
StopJoinTimeout(c) ==
    /\ calls[c].pc = "join"
    /\ blocks_past_join(heap[calls[c].pipeline])
    /\ Step(pipelines, heap, Return(c, "True"))

\* ---------------------------------------- _continuous_pipeline_worker steps

\* Line 211 with a usable config.
WorkerInit(r) ==
    /\ heap[r].thread = "init"
    /\ ~init_raises(heap[r].config)
    /\ Step(pipelines, [heap EXCEPT ![r].thread = "test"], calls)

\* Line 211 raises outside the try block: the thread dies, status untouched.
WorkerInitRaises(r) ==
    /\ heap[r].thread = "init"
    /\ init_raises(heap[r].config)
    /\ Step(pipelines, [heap EXCEPT ![r].thread = "dead"], calls)

\* Line 213, condition true: enter the loop body.  The execution budget is
\* taken here, so that a worker that entered the body can always go on.
WorkerEnter(r) ==
    /\ heap[r].thread = "test"
    /\ LoopContinues(heap[r])
    /\ TotalExecutions(heap, Len(heap)) + InBody(heap, Len(heap)) < MaxExecutions
    /\ Step(pipelines, [heap EXCEPT ![r].thread = "body"], calls)

\* Line 213, condition false, then line 233: the worker returns.
WorkerExit(r) ==
    /\ heap[r].thread = "test"
    /\ ~LoopContinues(heap[r])
    /\ Step(pipelines, [heap EXCEPT ![r].thread = "dead"], calls)

\* Lines 216-217: count the execution and call pipe_vision_to_speech.
WorkerExecute(r) ==
    /\ heap[r].thread = "body"
    /\ Step(pipelines, worker_store(heap, r, CountExecution(heap[r])), calls)

\* Lines 217-226: pipe_vision_to_speech returns, the success is counted and
\* the worker calls time.sleep.
WorkerResult(r) ==
    /\ heap[r].thread = "exec"
    /\ \E out \in {[result |-> o.result, capabilities |-> o.capabilities] :
                      o \in {pipe_vision_to_speech(capabilities, heap[r].config,
                                                   vresp, body, sresp) :
                                 vresp \in Responses, body \in Bodies,
                                 sresp \in Responses}} :
          /\ pipelines' = pipelines
          /\ heap' = worker_store(heap, r, CountSuccess(heap[r], out.result))
          /\ calls' = calls
          /\ capabilities' = out.capabilities
          /\ UNCHANGED <<probe, last>>

\* Line 226 returns: back to the loop condition.
WorkerWake(r) ==
    /\ heap[r].thread = "sleep"
    /\ ~sleep_raises(heap[r].config)
    /\ Step(pipelines, [heap EXCEPT ![r].thread = "test"], calls)

\* Line 226 raises, lines 228-233: status = ERROR, break, the worker returns.
WorkerFault(r) ==
    /\ heap[r].thread = "sleep"
    /\ sleep_raises(heap[r].config)
    /\ Step(pipelines,
            worker_store(heap, r,
                         [heap[r] EXCEPT !.status = ERROR, !.thread = "dead"]),
            calls)

\* ------------------------------------------------------------ specification

Next ==
    \/ \E c \in Callers, id \in PipelineIds, config \in Configs :
          StartRejected(c, id, config)
    \/ \E c \in Callers, id \in PipelineIds, config \in Configs :
          StartCreate(c, id, config)
    \/ \E c \in Callers : StartRegister(c)
    \/ \E c \in Callers : StartLaunch(c)
    \/ \E c \in Callers, id \in PipelineIds : StopUnknown(c, id)
    \/ \E c \in Callers, id \in PipelineIds : StopFetch(c, id)
    \/ \E c \in Callers : StopSignal(c)
    \/ \E c \in Callers : StopSetStatus(c)
    \/ \E c \in Callers : StopJoined(c)
    \/ \E c \in Callers : StopJoinTimeout(c)
    \/ \E r \in 1..Len(heap) : WorkerInit(r)
    \/ \E r \in 1..Len(heap) : WorkerInitRaises(r)
    \/ \E r \in 1..Len(heap) : WorkerEnter(r)
    \/ \E r \in 1..Len(heap) : WorkerExit(r)
    \/ \E r \in 1..Len(heap) : WorkerExecute(r)
    \/ \E r \in 1..Len(heap) : WorkerResult(r)
    \/ \E r \in 1..Len(heap) : WorkerWake(r)
    \/ \E r \in 1..Len(heap) : WorkerFault(r)

Spec == Init /\ [][Next]_vars

\* The steps of the worker thread of heap position r.
WorkerStep(r) ==
    /\ r <= Len(heap)
    /\ \/ WorkerInit(r) \/ WorkerInitRaises(r)
       \/ WorkerEnter(r) \/ WorkerExit(r)
       \/ WorkerExecute(r) \/ WorkerResult(r)
       \/ WorkerWake(r) \/ WorkerFault(r)

\* A started thread is scheduled again and again, every request ends (answer,
\* error or its 30s timeout) and every sleep of a finite interval returns.
FairSpec == Spec /\ \A r \in 1..MaxPipelines : WF_vars(WorkerStep(r))

\* ----------------------------------------------------- two calling threads
\* The HTTP adapter serves each request on a thread of its own, so two calls
\* of the public operations may overlap.
RaceCallers == {"c1", "c2"}

RaceInit ==
    /\ pipelines = [id \in PipelineIds |-> 0]
    /\ heap = <<>>
    /\ calls = [c \in RaceCallers |-> Idle]
    /\ capabilities = initialize_capabilities({"speech", "vision"})
    /\ probe = NoProbe(capabilities)
    /\ last = NoCall

RaceNext ==
    \/ \E c \in RaceCallers, id \in PipelineIds, config \in Configs :
          StartRejected(c, id, config)
    \/ \E c \in RaceCallers, id \in PipelineIds, config \in Configs :
          StartCreate(c, id, config)
    \/ \E c \in RaceCallers : StartRegister(c)
    \/ \E c \in RaceCallers : StartLaunch(c)
    \/ \E c \in RaceCallers, id \in PipelineIds : StopUnknown(c, id)
    \/ \E c \in RaceCallers, id \in PipelineIds : StopFetch(c, id)
    \/ \E c \in RaceCallers : StopSignal(c)
    \/ \E c \in RaceCallers : StopSetStatus(c)
    \/ \E c \in RaceCallers : StopJoined(c)
    \/ \E c \in RaceCallers : StopJoinTimeout(c)
    \/ \E r \in 1..Len(heap) : WorkerInit(r)
    \/ \E r \in 1..Len(heap) : WorkerInitRaises(r)
    \/ \E r \in 1..Len(heap) : WorkerEnter(r)
    \/ \E r \in 1..Len(heap) : WorkerExit(r)
    \/ \E r \in 1..Len(heap) : WorkerExecute(r)
    \/ \E r \in 1..Len(heap) : WorkerResult(r)
    \/ \E r \in 1..Len(heap) : WorkerWake(r)
    \/ \E r \in 1..Len(heap) : WorkerFault(r)

RaceSpec == RaceInit /\ [][RaceNext]_vars

\* ------------------------------------------------------------------ cleanup
\* cleanup(), lines 317-320, on an orchestrator with two pipeline ids.  The
\* call in progress is kept in `last`: todo are the ids of the snapshot
\* list(self.pipelines.keys()) not yet passed to stop_pipeline.  cleanup
\* runs at process exit: once it is called no other call is issued.
CleanupIds == {"p1", "p2"}

\* The keys of the registry h[1..n] in insertion order: a dict keeps a key at
\* the place of its first insertion.
RECURSIVE keys_upto(_, _)
keys_upto(h, n) ==
    IF n = 0 THEN <<>>
    ELSE LET keys == keys_upto(h, n - 1)
         IN  IF \E i \in 1..Len(keys) : keys[i] = h[n].id
             THEN keys ELSE Append(keys, h[n].id)

\* list(self.pipelines.keys()), line 319.
pipeline_keys ==
    SelectSeq(keys_upto(heap, Len(heap)), LAMBDA id : pipelines[id] # 0)

\* Line 319: the snapshot of the keys is taken.
CleanupCall(c) ==
    /\ calls[c].pc = "idle"
    /\ last.op # "cleanup"
    /\ last' = [op |-> "cleanup", pc |-> "loop", todo |-> pipeline_keys]
    /\ UNCHANGED <<pipelines, heap, calls, capabilities, probe>>

\* Lines 319-320 and 237-241: the loop takes the next id and calls
\* stop_pipeline, which finds the id and fetches its Pipeline.
CleanupStop(c) ==
    /\ last.op = "cleanup" /\ last.pc = "loop"
    /\ calls[c].pc = "idle"
    /\ last.todo # <<>>
    /\ InRegistry(Head(last.todo))
    /\ calls' = [calls EXCEPT ![c] =
                    [pc |-> "signal", op |-> "stop",
                     pipeline_id |-> Head(last.todo),
                     pipeline |-> pipelines[Head(last.todo)], ret |-> "none",
                     seen |-> heap[pipelines[Head(last.todo)]].status]]
    /\ last' = [last EXCEPT !.todo = Tail(@)]
    /\ UNCHANGED <<pipelines, heap, capabilities, probe>>

\* The loop of line 319 is exhausted and the last stop_pipeline has
\* returned: cleanup returns.
CleanupReturn(c) ==
    /\ last.op = "cleanup" /\ last.pc = "loop"
    /\ calls[c].pc = "idle"
    /\ last.todo = <<>>
    /\ last' = [last EXCEPT !.pc = "returned"]
    /\ UNCHANGED <<pipelines, heap, calls, capabilities, probe>>

CleanupInit ==
    /\ pipelines = [id \in CleanupIds |-> 0]
    /\ heap = <<>>
    /\ calls = [c \in Callers |-> Idle]
    /\ capabilities = initialize_capabilities({"speech", "vision"})
    /\ probe = NoProbe(capabilities)
    /\ last = NoCall

CleanupNext ==
    \/ \E c \in Callers, id \in CleanupIds, config \in Configs :
          last.op # "cleanup" /\ StartRejected(c, id, config)
    \/ \E c \in Callers, id \in CleanupIds, config \in Configs :
          last.op # "cleanup" /\ StartCreate(c, id, config)
    \/ \E c \in Callers : StartRegister(c)
    \/ \E c \in Callers : StartLaunch(c)
    \/ \E c \in Callers, id \in CleanupIds :
          last.op # "cleanup" /\ StopUnknown(c, id)
    \/ \E c \in Callers, id \in CleanupIds :
          last.op # "cleanup" /\ StopFetch(c, id)
    \/ \E c \in Callers : StopSignal(c)
    \/ \E c \in Callers : StopSetStatus(c)
    \/ \E c \in Callers : StopJoined(c)
    \/ \E c \in Callers : StopJoinTimeout(c)
    \/ \E c \in Callers : CleanupCall(c)
    \/ \E c \in Callers : CleanupStop(c)
    \/ \E c \in Callers : CleanupReturn(c)
    \/ \E r \in 1..Len(heap) : WorkerInit(r)
    \/ \E r \in 1..Len(heap) : WorkerInitRaises(r)
    \/ \E r \in 1..Len(heap) : WorkerEnter(r)
    \/ \E r \in 1..Len(heap) : WorkerExit(r)
    \/ \E r \in 1..Len(heap) : WorkerExecute(r)
    \/ \E r \in 1..Len(heap) : WorkerResult(r)
    \/ \E r \in 1..Len(heap) : WorkerWake(r)
    \/ \E r \in 1..Len(heap) : WorkerFault(r)

CleanupSpec == CleanupInit /\ [][CleanupNext]_vars

\* The steps of the thread that runs cleanup.
CleanupStep(c) ==
    \/ CleanupStop(c) \/ CleanupReturn(c)
    \/ StopSignal(c) \/ StopSetStatus(c)
    \/ StopJoined(c) \/ StopJoinTimeout(c)

\* The workers are scheduled fairly (as in FairSpec) and the thread that
\* runs cleanup goes on until cleanup returns.
CleanupFairSpec ==
    /\ CleanupSpec
    /\ \A r \in 1..MaxPipelines : WF_vars(WorkerStep(r))
    /\ \A c \in Callers : WF_vars(last.op = "cleanup" /\ CleanupStep(c))

\* ------------------------------------------------------- process_command
\* process_command(command), lines 295-315.  Commands are strings, that is,
\* sequences of characters.

\* The literals of lines 297-311.
Say == <<"s", "a", "y", " ">>
SeeAndSay ==
    <<"s", "e", "e", " ", "a", "n", "d", " ", "s", "a", "y">>
StartContinuousVision ==
    <<"s", "t", "a", "r", "t", " ", "c", "o", "n", "t", "i", "n", "u", "o", "u", "s">>
    \o <<" ", "v", "i", "s", "i", "o", "n">>
StopContinuous ==
    <<"s", "t", "o", "p", " ", "c", "o", "n", "t", "i", "n", "u", "o", "u", "s">>

\* Commands a client may send: a literal alone, with text after it, and cut
\* short.
Commands ==
    {Say \o <<"H", "i">>, <<"s", "a", "y">>,
     SeeAndSay,
     StartContinuousVision,
     StopContinuous \o <<"!">>, <<"s", "t", "o", "p">>}

\* Lines 307 and 308, 312.
DefaultPipelineId == "default_vision_speech"
DefaultPipelineConfig ==
    [is_none |-> FALSE, has_interval |-> TRUE, interval_ms |-> 5000,
     voice_id |-> "ito", emotion |-> "observant"]
CommandIds == {DefaultPipelineId}

\* str.startswith as equality of the whole strings.
startswith_exact(str, prefix) == str = prefix

\* str.startswith(prefix).
startswith(str, prefix) ==
    Len(str) >= Len(prefix) /\ SubSeq(str, 1, Len(prefix)) = prefix

\* The if/elif chain of process_command: the operation the command calls
\* and its arguments; command[4:] is the text of a say command.
process_command(command) ==
    IF startswith(command, Say)
    THEN [op |-> "speak", text |-> SubSeq(command, 5, Len(command))]
    ELSE IF startswith(command, SeeAndSay)
    THEN [op |-> "pipe"]
    ELSE IF startswith(command, StartContinuousVision)
    THEN [op |-> "start", pipeline_id |-> DefaultPipelineId,
          config |-> DefaultPipelineConfig]
    ELSE IF startswith(command, StopContinuous)
    THEN [op |-> "stop", pipeline_id |-> DefaultPipelineId]
    ELSE [op |-> "none"]

\* The string process_command returns after the operation op returned
\* success (the arrow of lines 304 and 309 is written ->).
command_result(op, success) ==
    IF op = "speak"
    THEN (IF success THEN "Spoken successfully" ELSE "Failed to speak")
    ELSE IF op = "pipe"
    THEN (IF success THEN "Vision->Speech pipeline executed"
                     ELSE "Pipeline execution failed")
    ELSE IF op = "start"
    THEN (IF success THEN "Continuous vision->speech started"
                     ELSE "Failed to start pipeline")
    ELSE IF op = "stop"
    THEN (IF success THEN "Continuous pipeline stopped"
                     ELSE "Failed to stop pipeline")
    ELSE "Unknown command"

\* No command is between its call and its return.
NoCommandPending == last.op = "command" => last.pc = "returned"

\* The endpoints of a sequence of requests.
endpoints(requests) == [i \in DOMAIN requests |-> requests[i].endpoint]

\* The record of a command in `last`: engine is the operation called with
\* its arguments, requests the endpoints it sent requests to on the caller's
\* thread, success what the operation returned, result the string returned.
CommandRecord(command, pc, requests, success) ==
    [op |-> "command", command |-> command, pc |-> pc,
     engine |-> process_command(command),
     requests |-> requests, success |-> success,
     result |-> IF pc = "returned"
                THEN command_result(process_command(command).op, success)
                ELSE "none"]

\* Lines 297-300: a say command; speak is one blocking call, out is what
\* speak(command[4:]) does for one of the answers of the speech service.
CommandSay(c, command) ==
    /\ calls[c].pc = "idle" /\ NoCommandPending
    /\ process_command(command).op = "speak"
    /\ \E out \in {speak(capabilities, process_command(command).text, resp) :
                      resp \in Responses} :
          /\ capabilities' = out.capabilities
          /\ last' = CommandRecord(command, "returned",
                                   endpoints(out.requests),
                                   out.result /\ ~out.raised)
    /\ UNCHANGED <<pipelines, heap, calls, probe>>

\* Lines 302-304: pipe_vision_to_speech() with its default config (None),
\* for every answer of the vision and of the speech service.
CommandSeeAndSay(c, command) ==
    /\ calls[c].pc = "idle" /\ NoCommandPending
    /\ process_command(command).op = "pipe"
    /\ \E out \in {pipe_vision_to_speech(capabilities, [is_none |-> TRUE],
                                         vresp, body, sresp) :
                      vresp \in Responses, body \in Bodies,
                      sresp \in Responses} :
          /\ capabilities' = out.capabilities
          /\ last' = CommandRecord(command, "returned",
                                   endpoints(out.requests),
                                   out.result /\ ~out.raised)
    /\ UNCHANGED <<pipelines, heap, calls, probe>>

\* Line 315: no branch matches.
CommandUnknown(c, command) ==
    /\ calls[c].pc = "idle" /\ NoCommandPending
    /\ process_command(command).op = "none"
    /\ last' = CommandRecord(command, "returned", <<>>, FALSE)
    /\ UNCHANGED <<pipelines, heap, calls, capabilities, probe>>

\* Lines 306-308 and 311-312: a start or stop command reaches its call of
\* start_continuous_pipeline or stop_pipeline, which then runs step by step.
CommandCall(c, command) ==
    /\ calls[c].pc = "idle" /\ NoCommandPending
    /\ process_command(command).op \in {"start", "stop"}
    /\ last' = CommandRecord(command, "called", <<>>, FALSE)
    /\ calls' = [calls EXCEPT ![c] = Idle]
    /\ UNCHANGED <<pipelines, heap, capabilities, probe>>

\* The operation of the pending command has not begun.
CommandCalls(c, op) ==
    /\ last.op = "command" /\ last.pc = "called"
    /\ calls[c] = Idle
    /\ last.engine.op = op

\* Lines 309 and 313: the operation has returned, the command returns.
CommandReturn(c) ==
    /\ last.op = "command" /\ last.pc = "called"
    /\ calls[c].pc = "idle" /\ calls[c].op = last.engine.op
    /\ last' = [last EXCEPT
                   !.pc = "returned",
                   !.success = (calls[c].ret = "True"),
                   !.result = command_result(last.engine.op,
                                             calls[c].ret = "True")]
    /\ UNCHANGED <<pipelines, heap, calls, capabilities, probe>>

\* The capabilities section of the configurations commands are run on: the
\* default one, and one without the speech capability.
CommandRegistrations == {{"speech", "vision"}, {"vision"}}

\* An orchestrator built from one of these configurations, driven by
\* commands only.
CommandInit ==
    /\ pipelines = [id \in CommandIds |-> 0]
    /\ heap = <<>>
    /\ calls = [c \in Callers |-> Idle]
    /\ \E registered \in CommandRegistrations :
          capabilities = initialize_capabilities(registered)
    /\ probe = NoProbe(capabilities)
    /\ last = NoCall

\* The default config has a positive interval, so the workers started by
\* commands neither raise at line 211 nor in their sleep.
CommandNext ==
    \/ \E c \in Callers, command \in Commands : CommandSay(c, command)
    \/ \E c \in Callers, command \in Commands : CommandSeeAndSay(c, command)
    \/ \E c \in Callers, command \in Commands : CommandUnknown(c, command)
    \/ \E c \in Callers, command \in Commands : CommandCall(c, command)
    \/ \E c \in Callers :
          /\ CommandCalls(c, "start")
          /\ StartRejected(c, last.engine.pipeline_id, last.engine.config)
    \/ \E c \in Callers :
          /\ CommandCalls(c, "start")
          /\ StartCreate(c, last.engine.pipeline_id, last.engine.config)
    \/ \E c \in Callers : StartRegister(c)
    \/ \E c \in Callers : StartLaunch(c)
    \/ \E c \in Callers :
          /\ CommandCalls(c, "stop")
          /\ StopUnknown(c, last.engine.pipeline_id)
    \/ \E c \in Callers :
          /\ CommandCalls(c, "stop")
          /\ StopFetch(c, last.engine.pipeline_id)
    \/ \E c \in Callers : StopSignal(c)
    \/ \E c \in Callers : StopSetStatus(c)
    \/ \E c \in Callers : StopJoined(c)
    \/ \E c \in Callers : StopJoinTimeout(c)
    \/ \E c \in Callers : CommandReturn(c)
    \/ \E r \in 1..Len(heap) : WorkerInit(r)
    \/ \E r \in 1..Len(heap) : WorkerEnter(r)
    \/ \E r \in 1..Len(heap) : WorkerExit(r)
    \/ \E r \in 1..Len(heap) : WorkerExecute(r)
    \/ \E r \in 1..Len(heap) : WorkerResult(r)
    \/ \E r \in 1..Len(heap) : WorkerWake(r)

CommandSpec == CommandInit /\ [][CommandNext]_vars

\* ------------------------------------------------- capability operations
\* The operations below act on the capability registry.  Each direct call is
\* one step (the caller blocks in its request until the answer or the
\* exception arrives); `last` keeps its arguments, the requests it sent and
\* what it returned.  They run concurrently with check_all_capabilities.

\* One step of a capability operation: the pipeline state is not touched.
CapStep(caps, pr, call) ==
    /\ capabilities' = caps
    /\ probe' = pr
    /\ last' = call
    /\ UNCHANGED <<pipelines, heap, calls>>

\* speak(text), lines 95-111.
Speak(text, resp) ==
    LET out == speak(capabilities, text, resp)
    IN  CapStep(out.capabilities, probe,
                [op |-> "speak", text |-> text, resp |-> resp,
                 requests |-> out.requests, result |-> out.result,
                 raised |-> out.raised])

\* get_vision_description(), lines 113-130.
GetVisionDescription(resp, body) ==
    LET out == get_vision_description(capabilities, resp, body)
    IN  CapStep(out.capabilities, probe,
                [op |-> "vision", resp |-> resp, body |-> body,
                 requests |-> out.requests, none |-> out.none,
                 text |-> out.text, raised |-> out.raised])

\* pipe_vision_to_speech(config), lines 163-179.
PipeVisionToSpeech(config, vresp, body, sresp) ==
    LET out == pipe_vision_to_speech(capabilities, config, vresp, body, sresp)
    IN  CapStep(out.capabilities, probe,
                [op |-> "pipe", config |-> config, vresp |-> vresp,
                 body |-> body, sresp |-> sresp,
                 requests |-> out.requests, result |-> out.result,
                 raised |-> out.raised])

\* vision_to_speech_transform(description, config), lines 132-147, called on
\* its own: it reads its arguments only and returns the speech data.
VisionToSpeechTransform(description, config) ==
    CapStep(capabilities, probe,
            [op |-> "transform", description |-> description,
             config |-> config,
             speech_data |-> vision_to_speech_transform(description, config)])

\* get_system_status(), lines 279-293: the status and last_error of every
\* registered capability, read and not written.
GetSystemStatus ==
    CapStep(capabilities, probe, [op |-> "status", view |-> capabilities])

\* check_all_capabilities, lines 88-93: one coroutine per registered name is
\* handed to asyncio.gather.
ProbeStart ==
    /\ probe.pc \in {"idle", "returned"}
    /\ CapStep(capabilities,
               [pc |-> "running", todo |-> capability_keys(capabilities),
                inflight |-> {},
                outcome |-> [name \in DOMAIN capabilities |-> Unprobed],
                peak |-> 0, raised |-> FALSE],
               last)

\* The event loop begins the next coroutine: it runs up to requests.get
\* (line 75), which blocks the loop's thread.  check_capability_status has
\* no await, so a coroutine begins only when no other one is inside its
\* request.
ProbeIssue ==
    /\ probe.pc = "running"
    /\ probe.todo # <<>>
    /\ probe.inflight = {}
    /\ LET sent == probe.inflight \cup {Head(probe.todo)}
       IN  CapStep(capabilities,
                   [probe EXCEPT !.todo = Tail(@), !.inflight = sent,
                                 !.peak = IF Cardinality(sent) > @
                                          THEN Cardinality(sent) ELSE @],
                   last)

\* The request of a coroutine ends with resp: lines 76-86 of
\* check_capability_status.
ProbeAnswer(resp) ==
    /\ probe.pc = "running"
    /\ \E name \in probe.inflight :
          LET out == check_capability_status(capabilities, name, resp)
          IN  CapStep(out.capabilities,
                      [probe EXCEPT !.inflight = @ \ {name},
                                    !.outcome[name] = resp,
                                    !.raised = @ \/ out.raised],
                      last)

\* Every coroutine has ended: gather and check_all_capabilities return.
ProbeReturn ==
    /\ probe.pc = "running"
    /\ probe.todo = <<>>
    /\ probe.inflight = {}
    /\ CapStep(capabilities, [probe EXCEPT !.pc = "returned"], last)

\* An orchestrator built from any configuration, no pipeline started.
CapInit ==
    /\ pipelines = [id \in PipelineIds |-> 0]
    /\ heap = <<>>
    /\ calls = [c \in Callers |-> Idle]
    /\ \E registered \in Registrations :
          capabilities = initialize_capabilities(registered)
    /\ probe = NoProbe(capabilities)
    /\ last = NoCall

CapNext ==
    \/ \E text \in Texts, resp \in Responses : Speak(text, resp)
    \/ \E resp \in Responses, body \in Bodies : GetVisionDescription(resp, body)
    \/ \E config \in ExecConfigs, vresp \in Responses, body \in Bodies,
          sresp \in Responses : PipeVisionToSpeech(config, vresp, body, sresp)
    \/ \E description \in Descriptions, config \in TransformConfigs :
          VisionToSpeechTransform(description, config)
    \/ GetSystemStatus
    \/ ProbeStart
    \/ ProbeIssue
    \/ \E resp \in ProbeResponses : ProbeAnswer(resp)
    \/ ProbeReturn

CapSpec == CapInit /\ [][CapNext]_vars

\* ------------------------------------------ the basic orchestrator
\* CorpusOrchestrator (orchestrator.py) keeps the same capability registry;
\* its check_capability_status and check_all_capabilities (lines 52-75) are
\* the statements of PipelineOrchestrator's, so the probe steps above are
\* its probe steps too.  It has no pipelines.  Its speak reads the cached
\* status.

\* CorpusOrchestrator.speak(text): seen is the cached status of speech at
\* the call ("unregistered" without the capability).
CorpusSpeak(text, resp) ==
    LET out == corpus_speak(capabilities, text, resp)
    IN  CapStep(out.capabilities, probe,
                [op |-> "corpus_speak", text |-> text, resp |-> resp,
                 seen |-> IF "speech" \in DOMAIN capabilities
                          THEN capabilities["speech"].status
                          ELSE "unregistered",
                 requests |-> out.requests, result |-> out.result])

BasicNext ==
    \/ \E text \in Texts, resp \in Responses : CorpusSpeak(text, resp)
    \/ ProbeStart
    \/ ProbeIssue
    \/ \E resp \in ProbeResponses : ProbeAnswer(resp)
    \/ ProbeReturn

BasicSpec == CapInit /\ [][BasicNext]_vars

\* ------------------------------------------------------ derived notions

\* Heap positions of the live worker threads launched for a pipeline id.
LiveWorkers(pipeline_id) ==
    {r \in 1..Len(heap) : heap[r].id = pipeline_id /\ is_alive(heap[r].thread)}

\* The step is the return of a stop_pipeline call of caller c.
StopReturns(c) == StopJoined(c) \/ StopJoinTimeout(c)

\* The requests a call sent to the /speak endpoint.
SpeakRequests(requests) ==
    SelectSeq(requests, LAMBDA q : q.endpoint = "/speak")

\* ------------------------------------------------------------------ claims

\* C1: each pipeline id has at most one live background worker, after any
\* sequence of start and stop calls (including stop followed by start while the
\* old worker is still inside an iteration or its sleep).
C1_AtMostOneLiveWorker ==
    \A id \in PipelineIds : Cardinality(LiveWorkers(id)) <= 1

\* C2: if the state of a registered pipeline is Running, a live worker of that
\* Pipeline object exists (a live worker has not seen the stop flag: it ends
\* at the first loop test that sees it).
C2_RunningHasLiveWorker ==
    \A id \in PipelineIds :
        get_pipeline_status(id) = RUNNING
            => is_alive(heap[pipelines[id]].thread)

\* C3: for every Pipeline object, executions >= successes >= 0.
C3_CountsOrdered ==
    \A r \in 1..Len(heap) :
        heap[r].executions >= heap[r].successes /\ heap[r].successes >= 0

\* C3 witness: after a restart, the stopped object has counted two executions
\* that both failed and the object that replaced it has counted a success.
C3_Witness ==
    \E r1, r2 \in 1..Len(heap) :
        /\ r1 # r2
        /\ heap[r1].id = heap[r2].id
        /\ pipelines[heap[r2].id] = r2
        /\ heap[r1].executions = 2 /\ heap[r1].successes = 0
        /\ heap[r1].thread \in {"sleep", "dead"}
        /\ heap[r2].executions >= 1 /\ heap[r2].successes = heap[r2].executions

\* C4: a start call made while the pipeline of that id is Running returns
\* False and changes neither the registry nor any Pipeline object (config,
\* stats, thread), so no second worker is launched.
C4_StartWhileRunningRejected ==
    [][\A c \in Callers, id \in PipelineIds, config \in Configs :
          (/\ get_pipeline_status(id) = RUNNING
           /\ (StartRejected(c, id, config) \/ StartCreate(c, id, config)))
          => /\ calls'[c].pc = "idle"
             /\ calls'[c].ret = "False"
             /\ pipelines' = pipelines
             /\ heap' = heap]_vars

\* C4 witness: a start call returned False while the running pipeline's
\* worker is alive and has already counted an execution.
C4_Witness ==
    \E c \in Callers :
        /\ calls[c].pc = "idle" /\ calls[c].op = "start" /\ calls[c].ret = "False"
        /\ get_pipeline_status(calls[c].pipeline_id) = RUNNING
        /\ is_alive(heap[pipelines[calls[c].pipeline_id]].thread)
        /\ heap[pipelines[calls[c].pipeline_id]].executions >= 1

\* C5: a start call made while the id is unknown or its pipeline is not
\* Running is never rejected; it registers a Pipeline object that no id was
\* mapped to before, in state Running with both counts 0 and the stop flag
\* clear, then starts exactly one thread, the one of that object, and
\* returns True.
C5_StartCreatesFreshRunning ==
    [][\A c \in Callers :
          /\ \A id \in PipelineIds, config \in Configs :
                StartRejected(c, id, config) => get_pipeline_status(id) = RUNNING
          /\ StartRegister(c) =>
                LET r == pipelines'[calls[c].pipeline_id] IN
                /\ r = calls[c].pipeline
                /\ \A id \in PipelineIds : pipelines[id] # r
                /\ heap'[r].id = calls[c].pipeline_id
                /\ heap'[r].status = RUNNING
                /\ heap'[r].executions = 0 /\ heap'[r].successes = 0
                /\ ~heap'[r].stop_flag
                /\ heap'[r].thread = "new"
          /\ StartLaunch(c) =>
                /\ calls'[c].ret = "True"
                /\ Len(heap') = Len(heap)
                /\ {r \in 1..Len(heap) : heap'[r].thread # heap[r].thread}
                      = {calls[c].pipeline}
                /\ heap[calls[c].pipeline].thread = "new"
                /\ is_alive(heap'[calls[c].pipeline].thread)]_vars

\* C5 witness: start returned True for an id whose earlier pipeline had run
\* and was stopped; the registry holds the fresh object, its thread started.
C5_Witness ==
    \E c \in Callers :
        /\ calls[c].pc = "idle" /\ calls[c].op = "start" /\ calls[c].ret = "True"
        /\ calls[c].pipeline = 2
        /\ pipelines[calls[c].pipeline_id] = 2
        /\ heap[1].status = STOPPED /\ heap[1].executions >= 1
        /\ heap[2].status = RUNNING /\ heap[2].executions = 0
        /\ heap[2].thread = "init"

\* C6: whenever a stop call returns (it returns True), the status reported for
\* its id is Stopped at that moment.
C6_StoppedWhenStopReturns ==
    [][\A c \in Callers :
          StopReturns(c)
             => /\ calls'[c].ret = "True"
                /\ get_pipeline_status(calls[c].pipeline_id)' = STOPPED]_vars

\* C7: once the stop flag of a Pipeline object is set, its executions count
\* increases at most one more time.
C7_AtMostOneLateExecution ==
    \A r \in 1..Len(heap) : heap[r].after_stop <= 1

\* C7 witness: the worker had passed the loop test when stop set the flag,
\* counted its in-flight execution and then ended at the next loop test.
C7_Witness ==
    \E r \in 1..Len(heap) :
        /\ heap[r].stop_flag
        /\ heap[r].after_stop = 1
        /\ heap[r].thread = "dead"
        /\ heap[r].status = STOPPED

\* C8: a stop call returns False, changing nothing, exactly when the id is
\* not in the registry; for an id in the registry it sets the stop flag, sets
\* the status to Stopped and returns True with the flag still set, whether or
\* not the worker has ended.
C8_StopContract ==
    [][\A c \in Callers :
          /\ \A id \in PipelineIds :
                StopUnknown(c, id) =>
                    /\ pipelines[id] = 0
                    /\ calls'[c].ret = "False"
                    /\ pipelines' = pipelines /\ heap' = heap
          /\ \A id \in PipelineIds :
                StopFetch(c, id) =>
                    /\ pipelines[id] # 0
                    /\ calls'[c].pipeline = pipelines[id]
          /\ StopSignal(c) => heap'[calls[c].pipeline].stop_flag
          /\ StopSetStatus(c) => heap'[calls[c].pipeline].status = STOPPED
          /\ StopReturns(c) =>
                /\ calls'[c].ret = "True"
                /\ heap'[calls[c].pipeline].stop_flag]_vars

\* C8 witness: stop has returned True and the worker of the stopped object
\* is still alive.
C8_Witness ==
    \E c \in Callers :
        /\ calls[c].pc = "idle" /\ calls[c].op = "stop" /\ calls[c].ret = "True"
        /\ heap[calls[c].pipeline].stop_flag
        /\ heap[calls[c].pipeline].status = STOPPED
        /\ is_alive(heap[calls[c].pipeline].thread)

\* C9 as stated: a stop call that finds its pipeline already Stopped returns
\* False and none of its steps changes a Pipeline object.
C9_StopOnStoppedReturnsFalse ==
    [][\A c \in Callers :
          calls[c].seen = STOPPED =>
             /\ (StopSignal(c) \/ StopSetStatus(c) \/ StopReturns(c))
                   => heap' = heap
             /\ StopReturns(c) => calls'[c].ret = "False"]_vars

\* C9 amended: a stop call that finds its pipeline already Stopped returns
\* True; the stop flag of the object was set before and stays set, no step of
\* the call changes the counts, and the call writes the status Stopped again.
C9_StopOnStoppedReturnsTrue ==
    [][\A c \in Callers :
          calls[c].seen = STOPPED =>
             LET p == calls[c].pipeline IN
             /\ (StopSignal(c) \/ StopSetStatus(c) \/ StopReturns(c)) =>
                   /\ heap[p].stop_flag /\ heap'[p].stop_flag
                   /\ heap'[p].executions = heap[p].executions
                   /\ heap'[p].successes = heap[p].successes
             /\ StopSetStatus(c) => heap'[p].status = STOPPED
             /\ StopReturns(c) => calls'[c].ret = "True"]_vars

\* C9 witness: a stop call that found the pipeline Stopped has returned True.
C9_Witness ==
    \E c \in Callers :
        /\ calls[c].pc = "idle" /\ calls[c].op = "stop"
        /\ calls[c].seen = STOPPED
        /\ calls[c].ret = "True"
        /\ heap[calls[c].pipeline].stop_flag

\* C10: the status reported for a pipeline id changes only from Stopped (or
\* not yet known) to Running by a start call, from Running to Stopped by a
\* stop call, or from Running to Error by a fault of the worker.  A start call
\* that replaces the object of the id begins a new life cycle and is allowed
\* from any status; the property constrains the other two writers.
C10_OnlySpecifiedTransitions ==
    [][\A id \in PipelineIds :
          get_pipeline_status(id)' # get_pipeline_status(id) =>
             \/ /\ get_pipeline_status(id)' = RUNNING
                /\ \E c \in Callers : StartRegister(c)
             \/ /\ get_pipeline_status(id) = RUNNING
                /\ get_pipeline_status(id)' = STOPPED
                /\ \E c \in Callers : StopSetStatus(c)
             \/ /\ get_pipeline_status(id) = RUNNING
                /\ get_pipeline_status(id)' = ERROR
                /\ \E r \in 1..Len(heap) : WorkerFault(r)]_vars

C12_SleepInterruptedByStop ==
    [][\A r \in 1..Len(heap) :
          (/\ heap[r].stop_flag
           /\ heap[r].thread = "sleep"
           /\ heap'[r].thread # "sleep")
             => heap'[r].thread = "dead"]_vars

\* C13: once stop_pipeline has set the stop flag of a Pipeline object, the
\* worker thread of that object eventually ends (threads are scheduled
\* fairly, every request and every sleep ends).
C13_WorkerEventuallyExits ==
    \A r \in 1..MaxPipelines :
        (r <= Len(heap) /\ heap[r].stop_flag)
            ~> (r <= Len(heap) /\ heap[r].thread = "dead")

\* C13 witness: a worker that had counted executions, all of them before the
\* stop flag was set, has ended with the flag set and the status Stopped.
C13_Witness ==
    \E r \in 1..Len(heap) :
        /\ heap[r].stop_flag
        /\ heap[r].status = STOPPED
        /\ heap[r].executions >= 1 /\ heap[r].after_stop = 0
        /\ heap[r].thread = "dead"

\* C14: a liveness probe answered with a status code other than 200 counts
\* as a failure: when check_all_capabilities has returned, a capability whose
\* probe got such an answer is not ONLINE, whatever it was before.
C14_Non200NotOnline ==
    probe.pc = "returned" =>
        \A name \in DOMAIN capabilities :
            probe.outcome[name].kind = "non200"
                => capabilities[name].status \in {OFFLINE, CAPABILITY_ERROR}

\* C15: check_all_capabilities probes concurrently and returns only after
\* every probe has ended: when it has returned, every registered capability
\* has its answer, and with two or more registered capabilities two requests
\* were in flight together during the round.
C15_ProbesConcurrent ==
    probe.pc = "returned" =>
        /\ probe.todo = <<>> /\ probe.inflight = {}
        /\ \A name \in DOMAIN capabilities : probe.outcome[name] # Unprobed
        /\ Cardinality(DOMAIN capabilities) >= 2 => probe.peak >= 2

\* C16: a transport error of one probe stays with that probe: when
\* check_all_capabilities has returned, no exception has left it, every
\* registered capability was probed, each whose request raised is in ERROR
\* with the text of its exception as last_error, and each that answered 200
\* is ONLINE.
C16_ProbeFailuresIsolated ==
    probe.pc = "returned" =>
        /\ ~probe.raised
        /\ \A name \in DOMAIN capabilities :
              /\ probe.outcome[name] # Unprobed
              /\ probe.outcome[name].kind = "raise" =>
                    /\ capabilities[name].status = CAPABILITY_ERROR
                    /\ capabilities[name].last_error = probe.outcome[name].error
                    /\ capabilities[name].last_error \in ErrorTexts
              /\ probe.outcome[name].kind = "ok200" =>
                    capabilities[name].status = ONLINE

\* C16 witness: a round in which the probe of speech raised and the probe of
\* vision, begun after it, answered 200.
C16_Witness ==
    /\ probe.pc = "returned"
    /\ DOMAIN capabilities = {"speech", "vision"}
    /\ probe.outcome["speech"] = [kind |-> "raise", error |-> "timed out"]
    /\ probe.outcome["vision"].kind = "ok200"
    /\ capabilities["speech"] =
          [status |-> CAPABILITY_ERROR, last_error |-> "timed out"]
    /\ capabilities["vision"].status = ONLINE

\* C17: the status and last_error of the capabilities are written only by
\* the liveness probes: every step that changes the registry is the handling
\* of a probe's answer; speak, get_vision_description, pipe_vision_to_speech
\* and the status query leave it as it was, whatever their requests returned.
C17_OnlyProbesWriteStatus ==
    [][capabilities' # capabilities
          => /\ last' = last
             /\ probe.pc = "running"
             /\ \E name \in probe.inflight :
                   /\ probe'.inflight = probe.inflight \ {name}
                   /\ \A other \in DOMAIN capabilities \ {name} :
                         capabilities'[other] = capabilities[other]]_vars

\* C17 witness: pipe_vision_to_speech sent both requests and the one to
\* /speak failed, while the registry shows speech ONLINE without an error.
C17_Witness ==
    /\ last.op = "pipe"
    /\ Len(last.requests) = 2
    /\ last.sresp = "raise" /\ ~last.result
    /\ "speech" \in DOMAIN capabilities
    /\ capabilities["speech"] = [status |-> ONLINE, last_error |-> NoError]

\* C18: what speak does is independent of the recorded status of speech: in
\* two registries that differ only in that entry, speak sends the same one
\* request and returns the same value for the same answer; a speak call
\* returned True exactly when its request was answered 200.
C18_SpeakIgnoresStatus ==
    "speech" \in DOMAIN capabilities =>
        /\ \A status \in CapabilityStatus, error \in ErrorTexts \cup {NoError},
              text \in Texts, resp \in Responses :
              LET other == [capabilities EXCEPT
                               !["speech"] = [status |-> status,
                                              last_error |-> error]]
              IN  /\ Len(speak(other, text, resp).requests) = 1
                  /\ speak(other, text, resp).requests
                        = speak(capabilities, text, resp).requests
                  /\ speak(other, text, resp).result
                        = speak(capabilities, text, resp).result
        /\ last.op = "speak" =>
              /\ last.requests = <<[endpoint |-> "/speak", text |-> last.text]>>
              /\ last.result = (last.resp = "ok200")

\* C18 witness: speak returned True while the registry shows speech in ERROR.
C18_Witness ==
    /\ last.op = "speak" /\ last.result
    /\ "speech" \in DOMAIN capabilities
    /\ capabilities["speech"].status = CAPABILITY_ERROR

\* C19: speak without a registered speech capability returns False, and
\* get_vision_description without a registered vision capability returns
\* None, both without sending a request; a transport error or a status code
\* other than 200 makes speak return False and get_vision_description return
\* None; no exception leaves either of them.
C19_UnregisteredOrFailedCall ==
    /\ last.op = "speak" =>
          /\ ~last.raised
          /\ "speech" \notin DOMAIN capabilities
                => last.requests = <<>> /\ ~last.result
          /\ last.resp \in {"raise", "non200"} => ~last.result
    /\ last.op = "vision" =>
          /\ ~last.raised
          /\ "vision" \notin DOMAIN capabilities
                => last.requests = <<>> /\ last.none
          /\ last.resp \in {"raise", "non200"} => last.none

\* C19 witness: get_vision_description returned None without a request in an
\* orchestrator without vision, although the endpoint would have answered.
C19_Witness ==
    /\ last.op = "vision"
    /\ "vision" \notin DOMAIN capabilities
    /\ last.resp = "ok200" /\ last.body.has_description
    /\ last.body.description # <<>>
    /\ last.requests = <<>> /\ last.none

\* C20 as stated: pipe_vision_to_speech returns False without calling speak
\* exactly when get_vision_description returned None; for every other
\* description, the empty string included, it calls speak once with the
\* enriched description and returns what speak returned; no exception
\* leaves it.
C20_SpeaksUnlessNone ==
    last.op = "pipe" =>
        LET seen == get_vision_description(capabilities, last.vresp, last.body)
            text == vision_to_speech_transform(seen.text, last.config).text
            said == speak(capabilities, text, last.sresp)
        IN  /\ ~last.raised
            /\ seen.none =>
                  /\ SpeakRequests(last.requests) = <<>>
                  /\ ~last.result
            /\ ~seen.none =>
                  /\ SpeakRequests(last.requests) = said.requests
                  /\ last.result = said.result

\* C20 amended: pipe_vision_to_speech returns False without calling speak
\* exactly when get_vision_description returned None or the empty string;
\* for every non-empty description it calls speak once with the enriched
\* description and returns what speak returned; no exception leaves it.
C20_SpeaksUnlessNoneOrEmpty ==
    last.op = "pipe" =>
        LET seen == get_vision_description(capabilities, last.vresp, last.body)
            text == vision_to_speech_transform(seen.text, last.config).text
            said == speak(capabilities, text, last.sresp)
        IN  /\ ~last.raised
            /\ (seen.none \/ seen.text = <<>>) =>
                  /\ SpeakRequests(last.requests) = <<>>
                  /\ ~last.result
            /\ ~(seen.none \/ seen.text = <<>>) =>
                  /\ SpeakRequests(last.requests) = said.requests
                  /\ last.result = said.result

\* C20 witness: the vision service answered 200 with an empty description
\* and the speech service would have answered 200; only /analyze was
\* requested and the call returned False.
C20_Witness ==
    /\ last.op = "pipe"
    /\ DOMAIN capabilities = {"speech", "vision"}
    /\ last.vresp = "ok200" /\ last.sresp = "ok200"
    /\ last.body = [has_description |-> TRUE, description |-> <<>>]
    /\ Len(last.requests) = 1
    /\ ~last.result

\* C21: the text built by vision_to_speech_transform depends on nothing but
\* its arguments and building it changes nothing: it is the prefix of the
\* emotion tag (the fixed phrase of calm, excited, curious or observant, "I
\* can see that " for every other tag, the phrase of observant when no tag
\* is given) followed by the description in lower case.
C21_EnrichPrefixLowercase ==
    [][(last'.op = "transform" /\ last' # last) =>
          LET tag == IF "emotion" \in DOMAIN last'.config
                     THEN last'.config.emotion ELSE "observant"
              phrase == CASE tag = "calm" -> "In this peaceful moment, "
                          [] tag = "excited" -> "I'm excited to see that "
                          [] tag = "curious" -> "I'm curious about what I'm seeing - "
                          [] tag = "observant" -> "I notice that "
                          [] OTHER -> "I can see that "
              text == last'.speech_data.text
              d == last'.description
          IN  /\ Len(text) = 1 + Len(d)
              /\ text[1] = phrase
              /\ \A i \in 1..Len(d) :
                    text[i + 1] = (CASE d[i] = "A" -> "a"
                                     [] d[i] = "H" -> "h"
                                     [] OTHER -> d[i])
              /\ UNCHANGED <<pipelines, heap, calls, capabilities, probe>>]_vars

\* C21 witness: a description with an upper case letter was enriched with an
\* unknown tag: default prefix, lower case letters.
C21_Witness ==
    /\ last.op = "transform"
    /\ last.description = <<"A", "b">>
    /\ last.config = [is_none |-> FALSE, emotion |-> "sad"]
    /\ last.speech_data.text = <<"I can see that ", "a", "b">>

\* C26: start_continuous_pipeline accepts a negative interval_ms: the call
\* returns True with the new pipeline RUNNING.  Its worker never counts a
\* second execution; it ends without an execution only when stop was
\* signalled before its first loop test; otherwise it counts exactly one
\* execution, and the sleep that follows raises: the step that leaves the
\* sleep sets the status to ERROR and ends the worker.
C26_NegativeIntervalOneExecution ==
    /\ [](\A r \in 1..Len(heap) :
            (heap[r].config.has_interval /\ heap[r].config.interval_ms < 0) =>
              /\ heap[r].executions <= 1
              /\ heap[r].thread \in {"exec", "sleep"} => heap[r].executions = 1
              /\ heap[r].thread = "dead" =>
                    (heap[r].executions = 1 \/ heap[r].stop_flag)
              /\ (heap[r].thread = "dead" /\ ~heap[r].stop_flag) =>
                    heap[r].status = ERROR)
    /\ [][\A r \in 1..Len(heap) :
            (heap[r].config.has_interval /\ heap[r].config.interval_ms < 0) =>
              /\ (heap[r].thread = "new" /\ heap'[r].thread # "new") =>
                    /\ heap'[r].status = RUNNING
                    /\ \E c \in Callers :
                          /\ calls'[c].op = "start" /\ calls'[c].pipeline = r
                          /\ calls'[c].pc = "idle" /\ calls'[c].ret = "True"
              /\ (heap[r].thread = "sleep" /\ heap'[r].thread # "sleep") =>
                    /\ heap'[r].thread = "dead"
                    /\ heap'[r].status = ERROR
                    /\ heap'[r].executions = 1]_vars

\* C26 witness: a pipeline started with interval_ms = -1 and never stopped
\* has counted one execution, its status is ERROR and its worker has ended.
C26_Witness ==
    \E r \in 1..Len(heap) :
        /\ heap[r].config.has_interval /\ heap[r].config.interval_ms = -1
        /\ ~heap[r].stop_flag
        /\ heap[r].executions = 1
        /\ heap[r].status = ERROR
        /\ heap[r].thread = "dead"
        /\ pipelines[heap[r].id] = r

\* C25: a worker writes only to the Pipeline object it was started with.  The
\* execution count of an object changes only in the step in which its own
\* worker counts an execution, its success count only in the step in which
\* its own worker gets the result of an execution, and its status changes
\* only by its own worker's fault or by the stop call that fetched this very
\* object; so the worker of a replaced object never changes the counts or
\* the status of the object now in the registry.
C25_WorkerWritesOwnRecord ==
    [][\A r \in 1..Len(heap) :
          /\ heap'[r].executions # heap[r].executions =>
                /\ heap[r].thread = "body" /\ heap'[r].thread = "exec"
                /\ heap'[r].executions = heap[r].executions + 1
          /\ heap'[r].successes # heap[r].successes =>
                /\ heap[r].thread = "exec" /\ heap'[r].thread = "sleep"
                /\ heap'[r].successes = heap[r].successes + 1
          /\ heap'[r].status # heap[r].status =>
                \/ /\ heap[r].thread = "sleep" /\ heap'[r].thread = "dead"
                   /\ heap'[r].status = ERROR
                \/ /\ heap'[r].status = STOPPED
                   /\ \E c \in Callers :
                         /\ calls[c].op = "stop" /\ calls[c].pipeline = r
                         /\ calls[c].pc = "set_status"
                         /\ calls'[c].pc = "join"]_vars

\* C25 witness: the id was stopped and started again while the worker of the
\* old object was inside an execution; the old worker has since counted that
\* execution's success on the old object, and the object now in the registry
\* is RUNNING with its worker started and both counts 0.
C25_Witness ==
    /\ Len(heap) = 2
    /\ heap[1].id = heap[2].id
    /\ pipelines[heap[2].id] = 2
    /\ heap[1].stop_flag /\ heap[1].after_stop = 1
    /\ heap[1].thread = "sleep" /\ heap[1].successes = 1
    /\ heap[2].thread = "test" /\ heap[2].status = RUNNING
    /\ heap[2].executions = 0 /\ heap[2].successes = 0

\* C27: for every registered capability, in every state: last_error is set
\* exactly when the status is ERROR (so ONLINE implies last_error is None),
\* and no step takes a status that is not OFFLINE back to OFFLINE.
C27_ErrorTextIffError ==
    /\ [](\A name \in DOMAIN capabilities :
            /\ (capabilities[name].last_error # NoError)
                   <=> (capabilities[name].status = CAPABILITY_ERROR)
            /\ capabilities[name].status = ONLINE
                   => capabilities[name].last_error = NoError)
    /\ [][\A name \in DOMAIN capabilities :
            capabilities[name].status # OFFLINE
               => capabilities'[name].status # OFFLINE]_vars

\* C27 witness: in one round of probes speech, which had been in ERROR,
\* answered 200 and is ONLINE without error text, and vision raised and is
\* in ERROR with the text of its exception.
C27_Witness ==
    /\ DOMAIN capabilities = {"speech", "vision"}
    /\ probe.pc = "returned"
    /\ probe.outcome["speech"].kind = "ok200"
    /\ probe.outcome["vision"].kind = "raise"
    /\ capabilities["speech"] = [status |-> ONLINE, last_error |-> NoError]
    /\ capabilities["vision"] =
          [status |-> CAPABILITY_ERROR, last_error |-> "refused"]
    /\ last.op = "status"
    /\ last.view["speech"].status = CAPABILITY_ERROR

\* C28: CorpusOrchestrator.speak sends a request only when the cached status
\* of speech is ONLINE: called with the status OFFLINE or ERROR (or without
\* the capability) it returns False and sends nothing, whatever the service
\* would answer.  Every capability starts OFFLINE and the status of speech
\* becomes ONLINE only in the step in which a probe of speech is answered
\* with 200, so speak returns True only after such a probe.
C28_CorpusSpeakNeedsOnline ==
    /\ \A name \in DOMAIN capabilities : capabilities[name].status = OFFLINE
    /\ [][/\ (last'.op = "corpus_speak" /\ last' # last) =>
                /\ last'.requests # <<>> =>
                      /\ "speech" \in DOMAIN capabilities
                      /\ capabilities["speech"].status = ONLINE
                /\ last'.result => (last'.requests # <<>> /\ last'.resp = "ok200")
                /\ capabilities' = capabilities
          /\ ("speech" \in DOMAIN capabilities
                /\ capabilities["speech"].status # ONLINE
                /\ capabilities'["speech"].status = ONLINE) =>
                /\ "speech" \in probe.inflight
                /\ "speech" \notin probe'.inflight
                /\ probe'.outcome["speech"].kind = "ok200"]_vars

\* C28 witness: the last probe of speech raised, the status is ERROR, and
\* speak, called while the service would have answered 200, returned False
\* without a request.
C28_Witness ==
    /\ "speech" \in DOMAIN capabilities
    /\ capabilities["speech"].status = CAPABILITY_ERROR
    /\ last.op = "corpus_speak"
    /\ last.seen = CAPABILITY_ERROR
    /\ last.resp = "ok200"
    /\ last.requests = <<>>
    /\ last.result = FALSE

\* C24: two overlapping start_continuous_pipeline calls for one id do not
\* both pass the check of line 183: no two callers are at the same time
\* between the check and the return of a start of the same id, and the
\* thread that a start launches is the thread of the object that the
\* registry holds for the id.
C24_StartCheckAndInsertAtomic ==
    /\ [](\A c \in DOMAIN calls, d \in DOMAIN calls :
            (/\ c # d
             /\ calls[c].op = "start" /\ calls[c].pc \in {"register", "launch"}
             /\ calls[d].op = "start" /\ calls[d].pc \in {"register", "launch"})
            => calls[c].pipeline_id # calls[d].pipeline_id)
    /\ [][\A r \in 1..Len(heap) :
            (heap[r].thread = "new" /\ heap'[r].thread # "new")
               => pipelines[heap[r].id] = r]_vars

\* C23: cleanup calls stop_pipeline for every id of the registry: in the
\* state in which it returns every registered pipeline has its stop flag set
\* and the status STOPPED, and once cleanup has been called every worker
\* thread eventually ends.
C23_CleanupStopsEveryPipeline ==
    /\ [][(last.op = "cleanup" /\ last.pc = "loop" /\ last'.pc = "returned") =>
            \A id \in DOMAIN pipelines :
                pipelines'[id] # 0 =>
                    /\ heap'[pipelines'[id]].stop_flag
                    /\ heap'[pipelines'[id]].status = STOPPED]_vars
    /\ (last.op = "cleanup")
          ~> (\A r \in 1..Len(heap) : ~is_alive(heap[r].thread))

\* C22: process_command dispatches on the prefix of the command and on
\* nothing else.  A command that begins with "say " calls speak with the
\* rest of the command, one that begins with "see and say" calls
\* pipe_vision_to_speech, "start continuous vision" calls
\* start_continuous_pipeline with the id default_vision_speech and the
\* default config, "stop continuous" calls stop_pipeline with that id, and
\* every other command returns "Unknown command" and calls nothing.  While
\* a command is in progress no other operation is called.  The string
\* returned is the success string of the operation exactly when the
\* operation returned True.  A command whose operation returned False has
\* changed neither the pipelines nor the capabilities: the failing call is
\* one step that writes nothing, so the commands that follow find the
\* engine as it was.
C22_PrefixDispatch ==
    /\ [](\A c \in DOMAIN calls :
            (last.op = "command" /\ last.pc = "called") =>
               /\ calls[c].op \in {"none", last.engine.op}
               /\ calls[c].op # "none" =>
                     calls[c].pipeline_id = "default_vision_speech")
    /\ [][/\ (last' # last /\ last'.op = "command") =>
               LET cmd == last'.command
                   HasPrefix(p) ==
                       /\ Len(cmd) >= Len(p)
                       /\ \A i \in 1..Len(p) : cmd[i] = p[i]
                   rest == [i \in 1..(Len(cmd) - 4) |-> cmd[i + 4]]
                   done == last'.pc = "returned"
                   said == IF last'.success THEN "ok" ELSE "failed"
               IN  /\ IF HasPrefix(Say)
                      THEN /\ done
                           /\ last'.engine = [op |-> "speak", text |-> rest]
                           /\ last'.requests =
                                 IF "speech" \in DOMAIN capabilities
                                 THEN <<"/speak">> ELSE <<>>
                           /\ last'.result =
                                 [ok |-> "Spoken successfully",
                                  failed |-> "Failed to speak"][said]
                           /\ UNCHANGED <<pipelines, heap, calls>>
                      ELSE IF HasPrefix(SeeAndSay)
                      THEN /\ done
                           /\ last'.engine = [op |-> "pipe"]
                           /\ "vision" \in DOMAIN capabilities =>
                                 /\ last'.requests # <<>>
                                 /\ last'.requests[1] = "/analyze"
                           /\ last'.success =>
                                 last'.requests = <<"/analyze", "/speak">>
                           /\ last'.result =
                                 [ok |-> "Vision->Speech pipeline executed",
                                  failed |-> "Pipeline execution failed"][said]
                           /\ UNCHANGED <<pipelines, heap, calls>>
                      ELSE IF HasPrefix(StartContinuousVision)
                      THEN /\ last'.engine.op = "start"
                           /\ last'.engine.pipeline_id = "default_vision_speech"
                           /\ last'.engine.config.interval_ms = 5000
                           /\ last'.engine.config.voice_id = "ito"
                           /\ last'.engine.config.emotion = "observant"
                           /\ done =>
                                 \E c \in DOMAIN calls :
                                    /\ calls[c].op = "start"
                                    /\ calls[c].pc = "idle"
                                    /\ last'.success = (calls[c].ret = "True")
                                    /\ last'.success =>
                                          /\ pipelines["default_vision_speech"]
                                                = calls[c].pipeline
                                          /\ heap[calls[c].pipeline].config
                                                = last'.engine.config
                                    /\ last'.result =
                                          [ok |-> "Continuous vision->speech started",
                                           failed |-> "Failed to start pipeline"][said]
                      ELSE IF HasPrefix(StopContinuous)
                      THEN /\ last'.engine =
                                 [op |-> "stop",
                                  pipeline_id |-> "default_vision_speech"]
                           /\ done =>
                                 \E c \in DOMAIN calls :
                                    /\ calls[c].op = "stop"
                                    /\ calls[c].pc = "idle"
                                    /\ last'.success = (calls[c].ret = "True")
                                    /\ last'.result =
                                          [ok |-> "Continuous pipeline stopped",
                                           failed |-> "Failed to stop pipeline"][said]
                      ELSE /\ done
                           /\ last'.engine = [op |-> "none"]
                           /\ last'.result = "Unknown command"
                           /\ last'.requests = <<>>
                           /\ UNCHANGED <<pipelines, heap, calls, capabilities>>
                   /\ (done /\ ~last'.success) =>
                         UNCHANGED <<pipelines, heap, capabilities>>
          /\ \A c \in DOMAIN calls :
                (calls'[c] # calls[c] /\ calls'[c].pc = "idle"
                                      /\ calls'[c].ret = "False") =>
                   /\ calls[c].pc = "idle"
                   /\ UNCHANGED <<pipelines, heap, capabilities>>]_vars

\* C22 witness: "start continuous vision" was sent while the default
\* pipeline was running: the command returned the failure string, the
\* pipeline is still RUNNING with its worker alive and an execution counted,
\* and the next command, a stop, can be sent.
C22_Witness ==
    /\ last.op = "command"
    /\ last.command = StartContinuousVision
    /\ last.pc = "returned"
    /\ last.result = "Failed to start pipeline"
    /\ pipelines["default_vision_speech"] = 1
    /\ heap[1].status = RUNNING /\ is_alive(heap[1].thread)
    /\ heap[1].executions = 1
    /\ ENABLED (\E c \in Callers : CommandCall(c, StopContinuous \o <<"!">>))
====
